---- MODULE Spec2Model ----
(***************************************************************************)
(* cluster_today.py: the clustering core of the daily pipeline.            *)
(*                                                                         *)
(* main() reads the day's records, asks the embedding provider for one     *)
(* vector per record, and either falls back to a single topic or runs the  *)
(* greedy clusterer, the adaptive threshold loop, the singleton            *)
(* reconciliation pass, the sort/truncate step and the topic assembly.     *)
(*                                                                         *)
(* Numbers.  The code computes in double precision; here a real x is the   *)
(* integer nearest to x * Scale and every arithmetic operation rounds to   *)
(* that grid (as every float operation rounds to the nearest double).      *)
(* Vectors are two-dimensional.  Cluster member indices are 0-based, as in *)
(* the code; TLA+ sequences are 1-based, so vecs[idx + 1] is vecs[idx].    *)
(***************************************************************************)
EXTENDS Integers, Sequences, FiniteSets, TLC

VARIABLES
    pc,            \* position of main()
    config,        \* config["runtime"]
    items,         \* the records read from the normalized file
    vectors,       \* what litellm_embed returned
    vecs,          \* the normalized vectors
    threshold,     \* current similarity threshold
    tries,         \* re-clusterings done by the threshold loop
    clusters,      \* list of [centroid, indices]
    merge_th,      \* relaxed threshold of the reconciliation pass
    singletons,    \* size-1 clusters, as partitioned at line 170
    non_single,    \* host list of the reconciliation pass
    si,            \* position of the for loop over singletons (1-based)
    moved,         \* merges done by the reconciliation pass
    topic_dicts,   \* the topic list written to topics_path
    written,       \* TRUE once topics_path has been written
    passes,        \* history: calls of _cluster_with_threshold so far
    prepared,      \* cluster_today: per cluster, its size and headlines
    titles,        \* cluster_today: titles[i], the title chosen for cluster i
    futures,       \* the futures of a ThreadPoolExecutor, by submitted index
    topics,        \* deepresearch: the topic list loaded from topics_path
    research_rows_map,  \* deepresearch: rows collected so far, by index
    research_rows, \* deepresearch: the rows written to research_path
    lock,          \* run_daily: LOCK_FILE, absent or its content and writer
    rpc,           \* run_daily: position of main() of each invocation
    started,       \* run_daily: the steps each invocation has started
    status         \* run_daily: exit status of each invocation

cluster_vars == <<pc, config, items, vectors, vecs, threshold, tries,
                  clusters, merge_th, singletons, non_single, si, moved,
                  topic_dicts, written, passes>>

cluster_vars_but_pc == <<config, items, vectors, vecs, threshold, tries,
                         clusters, merge_th, singletons, non_single, si,
                         moved, topic_dicts, written, passes>>

pool_vars == <<prepared, titles, futures, topics, research_rows_map,
               research_rows>>

run_vars == <<lock, rpc, started, status>>

vars == <<cluster_vars, pool_vars, run_vars>>

----------------------------------------------------------------------------
(* Bounds and program constants *)

MaxN == 4              \* most records in a batch drawn from Vectors
MaxLong == 5           \* most records in a batch drawn from LongVectors
MaxPass == 3           \* most records of a run whose pass is taken stepwise
MaxWide == 7           \* most records of a run of the threshold search alone

Scale == 1000          \* fixed-point resolution standing for dtype=float

MaxTries == 6          \* while ... tries < 6
ThresholdStep == 20    \* threshold - 0.02
RelaxDelta == 50       \* threshold - 0.05

\* Raw embedding vectors the provider may return (x, y in thousandths):
\* directions 0, 12, 24, 60 and 84 degrees, the first of length 2, and the
\* zero vector.
Vectors ==
    { <<2000, 0>>, <<978, 208>>, <<914, 407>>, <<500, 866>>, <<105, 995>>,
      <<0, 0>> }

\* Raw vectors of the longer batches: directions 0, 12 and 60 degrees.
LongVectors == { <<2000, 0>>, <<978, 208>>, <<500, 866>> }

\* Vectors of a result whose length does not match the records.
MismatchVectors == { <<2000, 0>> }

\* config["runtime"] values: max_topics_per_day, max_items_per_topic,
\* similarity_threshold, similarity_threshold_min, similarity_threshold_max.
\* The file is loaded whole (yaml.safe_load), so it may also carry keys that
\* main() never reads: max_search_iterations, threshold_step and
\* singleton_relax_delta are such keys.
Cfg(mt, mi, th, lo, hi) ==
    [ max_topics_per_day |-> mt, max_items_per_topic |-> mi,
      similarity_threshold |-> th, similarity_threshold_min |-> lo,
      similarity_threshold_max |-> hi,
      max_search_iterations |-> 6, threshold_step |-> 20,
      singleton_relax_delta |-> 50,
      naming_max_workers |-> 4, research_max_workers |-> 4 ]

\* The configuration c with the two pool sizes set in the file.
WithWorkers(c, w) ==
    [ c EXCEPT !.naming_max_workers = w, !.research_max_workers = w ]

\* The configuration c with the three search keys set in the file.
WithSearchKeys(c, it, st, de) ==
    [ c EXCEPT !.max_search_iterations = it, !.threshold_step = st,
               !.singleton_relax_delta = de ]

Configs ==
    { Cfg(3, 2, 820, 600, 900),     \* default thresholds
      WithSearchKeys(Cfg(0, 1, 860, 600, 900), 3, 50, 100),
                                    \* count always above the band
      Cfg(1, 1, 820, 800, 900),     \* floor close to the start
      Cfg(3, 2, 980, 600, 1000),    \* strict threshold
      Cfg(2, 2, 500, 600, 900),     \* configured value below the band
      Cfg(2, 1, 950, 600, 900),     \* configured value above the band
      Cfg(1, 2, 820, 900, 700) }    \* min above max

\* Thresholds at which single greedy passes are compared.
Thresholds == { 600, 700, 780, 820, 860, 900, 1000 }

----------------------------------------------------------------------------
(* Arithmetic *)

Min(a, b) == IF a < b THEN a ELSE b
Max(a, b) == IF a > b THEN a ELSE b

\* The longest batch of records.
MaxLen == Max(MaxN, MaxLong)

\* a / b rounded to the nearest integer, b > 0.
RDiv(a, b) == (2 * a + b) \div (2 * b)

RECURSIVE Newton(_, _)
Newton(x, r) ==
    LET s == (r + x \div r) \div 2
    IN  IF s >= r THEN r ELSE Newton(x, s)

\* The integer nearest to the square root of x.
Sqrt(x) ==
    IF x = 0 THEN 0
    ELSE LET r == Newton(x, x)
         IN  IF x - r * r > r THEN r + 1 ELSE r

Dot(a, b) == a[1] * b[1] + a[2] * b[2]

_norm(v) ==
    LET n == Sqrt(Dot(v, v))
    IN  IF n = 0 THEN v
        ELSE << RDiv(v[1] * Scale, n), RDiv(v[2] * Scale, n) >>

_cosine(a, b) == RDiv(Dot(a, b), Scale)

----------------------------------------------------------------------------
(* Greedy clusterer *)

\* BestScan replacing the current best on an equal similarity too.
RECURSIVE BestScanLast(_, _, _, _, _)
BestScanLast(cl, v, ci, best_ci, best_sim) ==
    IF ci >= Len(cl) THEN [ best_ci |-> best_ci, best_sim |-> best_sim ]
    ELSE LET sim == _cosine(v, cl[ci + 1].centroid)
         IN  IF sim >= best_sim
             THEN BestScanLast(cl, v, ci + 1, ci, sim)
             ELSE BestScanLast(cl, v, ci + 1, best_ci, best_sim)

\* The scan for the most similar centroid: best_ci is 0-based, -1 when no
\* centroid has similarity above -1.0.
RECURSIVE BestScan(_, _, _, _, _)
BestScan(cl, v, ci, best_ci, best_sim) ==
    IF ci >= Len(cl) THEN [ best_ci |-> best_ci, best_sim |-> best_sim ]
    ELSE LET sim == _cosine(v, cl[ci + 1].centroid)
         IN  IF sim > best_sim
             THEN BestScan(cl, v, ci + 1, ci, sim)
             ELSE BestScan(cl, v, ci + 1, best_ci, best_sim)

\* Best with best_sim starting at 1.0 instead of -1.0.
BestFromOne(cl, v) == BestScan(cl, v, 0, -1, Scale)

\* best_ci = -1; best_sim = -1.0; for ci, c in enumerate(cl): ...
Best(cl, v) == BestScan(cl, v, 0, -1, -Scale)

\* Absorb leaving the mean as the centroid, without normalizing it.
AbsorbMean(c, idx, v) ==
    LET n == Len(c.indices)
    IN  [ centroid |-> << RDiv(c.centroid[1] * n + v[1], n + 1),
                          RDiv(c.centroid[2] * n + v[2], n + 1) >>,
          indices  |-> Append(c.indices, idx) ]

\* new_centroid = _norm((cvec * n + v) / (n + 1)); indices.append(idx)
Absorb(c, idx, v) ==
    LET n == Len(c.indices)
    IN  [ centroid |-> _norm(<< RDiv(c.centroid[1] * n + v[1], n + 1),
                                RDiv(c.centroid[2] * n + v[2], n + 1) >>),
          indices  |-> Append(c.indices, idx) ]

\* GreedyStep with the threshold test reversed.
GreedyStepReversed(cl, idx, v, th) ==
    LET b == Best(cl, v)
    IN  IF b.best_ci >= 0 /\ b.best_sim <= th
        THEN [ cl EXCEPT ![b.best_ci + 1] = Absorb(@, idx, v) ]
        ELSE Append(cl, [ centroid |-> v, indices |-> << idx >> ])

\* The body of the for loop over vecs.
GreedyStep(cl, idx, v, th) ==
    LET b == Best(cl, v)
    IN  IF b.best_ci >= 0 /\ b.best_sim >= th
        THEN [ cl EXCEPT ![b.best_ci + 1] = Absorb(@, idx, v) ]
        ELSE Append(cl, [ centroid |-> v, indices |-> << idx >> ])

RECURSIVE GreedyFrom(_, _, _, _)
GreedyFrom(cl, vs, idx, th) ==
    IF idx >= Len(vs) THEN cl
    ELSE GreedyFrom(GreedyStep(cl, idx, vs[idx + 1], th), vs, idx + 1, th)

_cluster_with_threshold(vs, th) == GreedyFrom(<< >>, vs, 0, th)

----------------------------------------------------------------------------
(* Configuration reads *)

max_topics == config.max_topics_per_day
\* max_topics with the factor 1.2 left out.
desired_max_unscaled == max_topics

\* int(max_topics * 1.2): the product truncated toward zero
desired_max ==
    IF max_topics >= 0 THEN (max_topics * 12) \div 10
    ELSE -((-max_topics * 12) \div 10)
th_min == config.similarity_threshold_min
th_max == config.similarity_threshold_max
max_items_per_topic == config.max_items_per_topic

\* ClampedThreshold with the clamp left out.
Unclamped == config.similarity_threshold

\* threshold = max(min(threshold, th_max), th_min)
ClampedThreshold == Max(Min(config.similarity_threshold, th_max), th_min)

----------------------------------------------------------------------------
(* Sequences *)

SelectSeqBySize1(cs) == SelectSeq(cs, LAMBDA c : Len(c.indices) = 1)
SelectSeqBySizeGt1(cs) == SelectSeq(cs, LAMBDA c : Len(c.indices) > 1)

\* Take with the bound off by one.
TakeOneMore(s, k) == SubSeq(s, 1, Min(k + 1, Len(s)))

\* s[:k] for k >= 0
Take(s, k) == SubSeq(s, 1, Min(k, Len(s)))

RECURSIVE InsertBySize(_, _)

\* InsertBySize placing a cluster before the clusters of its own size.
InsertBeforeTies(sorted, c) ==
    IF sorted = << >> THEN << c >>
    ELSE IF Len(Head(sorted).indices) > Len(c.indices)
         THEN << Head(sorted) >> \o InsertBySize(Tail(sorted), c)
         ELSE << c >> \o sorted

\* list.sort(key = size, reverse = True): stable, descending.
InsertBySize(sorted, c) ==
    IF sorted = << >> THEN << c >>
    ELSE IF Len(Head(sorted).indices) >= Len(c.indices)
         THEN << Head(sorted) >> \o InsertBySize(Tail(sorted), c)
         ELSE << c >> \o sorted

\* SortBySizeDesc with the sort left out.
Unsorted(cs) == cs

RECURSIVE SortBySizeDesc(_)
SortBySizeDesc(cs) ==
    IF cs = << >> THEN << >>
    ELSE InsertBySize(SortBySizeDesc(SubSeq(cs, 1, Len(cs) - 1)), cs[Len(cs)])

----------------------------------------------------------------------------
(* Topics *)

\* f"topic-{k:03d}"
TopicId(k) ==
    [ prefix |-> "topic-",
      digits |-> IF k < 1000
                 THEN << k \div 100, (k \div 10) % 10, k % 10 >>
                 ELSE << k >> ]

\* ClusterItems taking the last members instead of the first.
ClusterItemsTail(c) ==
    LET all == [ k \in 1..Len(c.indices) |-> items[c.indices[k] + 1] ]
        m   == Min(max_items_per_topic, Len(all))
    IN  SubSeq(all, Len(all) - m + 1, Len(all))

\* [items[j] for j in indices][:max_items_per_topic]
ClusterItems(c) ==
    Take([ k \in 1..Len(c.indices) |-> items[c.indices[k] + 1] ],
         max_items_per_topic)

\* Topic with the number of items kept as its count.
TopicCountingItems(i) ==
    [ topic_id |-> TopicId(i),
      count    |-> Len(ClusterItems(clusters[i])),
      items    |-> ClusterItems(clusters[i]) ]

Topic(i) ==
    [ topic_id |-> TopicId(i),
      count    |-> Len(clusters[i].indices),
      items    |-> ClusterItems(clusters[i]) ]

\* items[j] raises IndexError when j is not an index of items.
IndexError ==
    \E i \in 1..Len(clusters) :
        \E k \in 1..Len(clusters[i].indices) :
            clusters[i].indices[k] >= Len(items)

primary_topic ==
    [ topic_id |-> [ prefix |-> "topic-", digits |-> << 0, 0, 1 >> ],
      count    |-> Len(items),
      items    |-> items ]

\* FallbackCond without the length test.
FallbackCondEmptyOnly == vectors = << >>

\* FallbackCond with "<" for "!=".
FallbackCondShorterOnly == vectors = << >> \/ Len(vectors) < Len(items)

\* if not vectors or len(vectors) != len(items)
FallbackCond == vectors = << >> \/ Len(vectors) # Len(items)

----------------------------------------------------------------------------
(* The run *)

\* No worker pool has been created and nothing has been collected.
PoolIdle ==
    /\ prepared = << >>
    /\ titles = << >>
    /\ futures = << >>
    /\ topics = << >>
    /\ research_rows_map = << >>
    /\ research_rows = << >>

\* No run_daily invocation is under way and LOCK_FILE does not exist.
NoLock == [ exists |-> FALSE, writer |-> 0 ]

RunIdle ==
    /\ lock = NoLock
    /\ rpc = << >>
    /\ started = << >>
    /\ status = << >>

Init ==
    /\ pc = "read"
    /\ PoolIdle
    /\ RunIdle
    /\ config \in Configs
    /\ items = << >>
    /\ vectors = << >>
    /\ vecs = << >>
    /\ threshold = 0
    /\ tries = 0
    /\ clusters = << >>
    /\ merge_th = 0
    /\ singletons = << >>
    /\ non_single = << >>
    /\ si = 0
    /\ moved = 0
    /\ topic_dicts = << >>
    /\ written = FALSE
    /\ passes = 0

\* ReadItems without the guard on an empty list.
ReadItemsUnguarded ==
    /\ pc = "read"
    /\ \E n \in 0..MaxLen :
        /\ items' = [ k \in 1..n |-> [ rid |-> k ] ]
        /\ pc' = "embed"
    /\ UNCHANGED <<pool_vars, run_vars>>
    /\ UNCHANGED <<config, vectors, vecs, threshold, tries, clusters,
                   merge_th, singletons, non_single, si, moved, topic_dicts,
                   written, passes>>

\* items = read_jsonl(normalized_path); if not items: return
ReadItems ==
    /\ pc = "read"
    /\ \E n \in 0..MaxLen :
        /\ items' = [ k \in 1..n |-> [ rid |-> k ] ]
        /\ pc' = IF n = 0 THEN "done" ELSE "embed"
    /\ UNCHANGED <<pool_vars, run_vars>>
    /\ UNCHANGED <<config, vectors, vecs, threshold, tries, clusters,
                   merge_th, singletons, non_single, si, moved, topic_dicts,
                   written, passes>>

\* vectors = litellm_embed(texts, config): one vector per text, or an empty
\* list (request failed), or a list of another length.
Embed ==
    /\ pc = "embed"
    /\ \/ /\ Len(items) <= MaxN
          /\ vectors' \in [ 1..Len(items) -> Vectors ]
       \/ /\ Len(items) <= MaxLong
          /\ vectors' \in [ 1..Len(items) -> LongVectors ]
       \/ \E k \in (0..(MaxLen + 1)) \ { Len(items) } :
              vectors' \in [ 1..k -> MismatchVectors ]
    /\ pc' = "embedded"
    /\ UNCHANGED <<pool_vars, run_vars>>
    /\ UNCHANGED <<config, items, vecs, threshold, tries, clusters, merge_th,
                   singletons, non_single, si, moved, topic_dicts, written,
                   passes>>

\* The fallback branch: one topic holding every record.
Fallback ==
    /\ pc = "embedded"
    /\ FallbackCond
    /\ topic_dicts' = << primary_topic >>
    /\ written' = TRUE
    /\ pc' = "done"
    /\ UNCHANGED <<pool_vars, run_vars>>
    /\ UNCHANGED <<config, items, vectors, vecs, threshold, tries, clusters,
                   merge_th, singletons, non_single, si, moved, passes>>

\* vecs = normalized vectors; threshold clamped into the band; first pass.
ClusterFirst ==
    /\ pc = "embedded"
    /\ ~FallbackCond
    /\ vecs' = [ k \in 1..Len(vectors) |-> _norm(vectors[k]) ]
    /\ threshold' = ClampedThreshold
    /\ clusters' = _cluster_with_threshold(vecs', threshold')
    /\ tries' = 0
    /\ passes' = passes + 1
    /\ pc' = "search"
    /\ UNCHANGED <<pool_vars, run_vars>>
    /\ UNCHANGED <<config, items, vectors, merge_th, singletons, non_single,
                   si, moved, topic_dicts, written>>

\* LoopCond with the bound read from the configuration.
LoopCondConfigured ==
    /\ Len(clusters) > desired_max
    /\ threshold > th_min
    /\ tries < config.max_search_iterations

\* LoopCond without the iteration bound.
LoopCondUnbounded ==
    /\ Len(clusters) > desired_max
    /\ threshold > th_min

\* while len(clusters) > desired_max and threshold > th_min and tries < 6
LoopCond ==
    /\ Len(clusters) > desired_max
    /\ threshold > th_min
    /\ tries < MaxTries

\* LowerThreshold with the list cl kept from the pass before.
LowerThresholdKeepingClusters ==
    /\ pc = "search"
    /\ LoopCond
    /\ threshold' = Max(th_min, threshold - ThresholdStep)
    /\ clusters' = GreedyFrom(clusters, vecs, 0, threshold')
    /\ tries' = tries + 1
    /\ passes' = passes + 1
    /\ UNCHANGED <<pool_vars, run_vars>>
    /\ UNCHANGED <<pc, config, items, vectors, vecs, merge_th, singletons,
                   non_single, si, moved, topic_dicts, written>>

\* One iteration of the threshold loop.
LowerThreshold ==
    /\ pc = "search"
    /\ LoopCond
    /\ threshold' = Max(th_min, threshold - ThresholdStep)
    /\ clusters' = _cluster_with_threshold(vecs, threshold')
    /\ tries' = tries + 1
    /\ passes' = passes + 1
    /\ UNCHANGED <<pool_vars, run_vars>>
    /\ UNCHANGED <<pc, config, items, vectors, vecs, merge_th, singletons,
                   non_single, si, moved, topic_dicts, written>>

\* MergeThreshold without the floor.
MergeThresholdUnfloored == threshold - RelaxDelta

\* merge_th = max(th_min, threshold - 0.05)
MergeThreshold == Max(th_min, threshold - RelaxDelta)

\* StartReconcile entering the pass when either list is non-empty.
StartReconcileEither ==
    /\ pc = "search"
    /\ ~LoopCond
    /\ merge_th' = MergeThreshold
    /\ singletons' = SelectSeqBySize1(clusters)
    /\ non_single' = SelectSeqBySizeGt1(clusters)
    /\ si' = 1
    /\ moved' = 0
    /\ pc' = IF singletons' # << >> \/ non_single' # << >>
             THEN "reconcile" ELSE "sort"
    /\ UNCHANGED <<pool_vars, run_vars>>
    /\ UNCHANGED <<config, items, vectors, vecs, threshold, tries, clusters,
                   topic_dicts, written, passes>>

\* Loop exit: merge_th and the partition into singletons and non_single.
StartReconcile ==
    /\ pc = "search"
    /\ ~LoopCond
    /\ merge_th' = MergeThreshold
    /\ singletons' = SelectSeqBySize1(clusters)
    /\ non_single' = SelectSeqBySizeGt1(clusters)
    /\ si' = 1
    /\ moved' = 0
    /\ pc' = IF singletons' # << >> /\ non_single' # << >>
             THEN "reconcile" ELSE "sort"
    /\ UNCHANGED <<pool_vars, run_vars>>
    /\ UNCHANGED <<config, items, vectors, vecs, threshold, tries, clusters,
                   topic_dicts, written, passes>>

\* ReconcileHosts keeping the singleton it has just merged.
ReconcileHostsKeepMerged(hosts, c, th) ==
    LET idx == c.indices[1]
        v   == vecs[idx + 1]
        b   == Best(hosts, v)
    IN  IF b.best_ci >= 0 /\ b.best_sim >= th
        THEN Append([ hosts EXCEPT ![b.best_ci + 1] = Absorb(@, idx, v) ], c)
        ELSE Append(hosts, c)

\* ReconcileHosts testing against the unrelaxed threshold.
ReconcileHostsUnrelaxed(hosts, c, th) ==
    LET idx == c.indices[1]
        v   == vecs[idx + 1]
        b   == Best(hosts, v)
    IN  IF b.best_ci >= 0 /\ b.best_sim >= th + RelaxDelta
        THEN [ hosts EXCEPT ![b.best_ci + 1] = Absorb(@, idx, v) ]
        ELSE Append(hosts, c)

\* ReconcileHosts comparing with the centroids the hosts had when the pass
\* started.
ReconcileHostsStale(hosts, c, th) ==
    LET idx   == c.indices[1]
        v     == vecs[idx + 1]
        start == SelectSeqBySizeGt1(clusters)
        stale == [ k \in 1..Len(hosts) |->
                     IF k <= Len(start)
                     THEN [ hosts[k] EXCEPT !.centroid = start[k].centroid ]
                     ELSE hosts[k] ]
        b     == Best(stale, v)
    IN  IF b.best_ci >= 0 /\ b.best_sim >= th
        THEN [ hosts EXCEPT ![b.best_ci + 1] = Absorb(@, idx, v) ]
        ELSE Append(hosts, c)

\* The body of the for loop over list(singletons).
ReconcileHosts(hosts, c, th) ==
    LET idx == c.indices[1]
        v   == vecs[idx + 1]
        b   == Best(hosts, v)
    IN  IF b.best_ci >= 0 /\ b.best_sim >= th
        THEN [ hosts EXCEPT ![b.best_ci + 1] = Absorb(@, idx, v) ]
        ELSE Append(hosts, c)

ReconcileOne ==
    /\ pc = "reconcile"
    /\ si <= Len(singletons)
    /\ non_single' = ReconcileHosts(non_single, singletons[si], merge_th)
    /\ moved' = IF Len(non_single') = Len(non_single) THEN moved + 1 ELSE moved
    /\ si' = si + 1
    /\ UNCHANGED <<pool_vars, run_vars>>
    /\ UNCHANGED <<pc, config, items, vectors, vecs, threshold, tries,
                   clusters, merge_th, singletons, topic_dicts, written,
                   passes>>

\* clusters = non_single
ReconcileEnd ==
    /\ pc = "reconcile"
    /\ si > Len(singletons)
    /\ clusters' = non_single
    /\ pc' = "sort"
    /\ UNCHANGED <<pool_vars, run_vars>>
    /\ UNCHANGED <<config, items, vectors, vecs, threshold, tries, merge_th,
                   singletons, non_single, si, moved, topic_dicts, written,
                   passes>>

\* clusters.sort(...); clusters = clusters[:max_topics]
SortTruncate ==
    /\ pc = "sort"
    /\ clusters' = Take(SortBySizeDesc(clusters), max_topics)
    /\ pc' = "assemble"
    /\ UNCHANGED <<pool_vars, run_vars>>
    /\ UNCHANGED <<config, items, vectors, vecs, threshold, tries, merge_th,
                   singletons, non_single, si, moved, topic_dicts, written,
                   passes>>

\* prepared / topic_dicts / write_text
BuildTopics ==
    /\ pc = "assemble"
    /\ IF IndexError
       THEN /\ pc' = "error"
            /\ UNCHANGED <<topic_dicts, written>>
       ELSE /\ topic_dicts' = [ i \in 1..Len(clusters) |-> Topic(i) ]
            /\ written' = TRUE
            /\ pc' = "done"
    /\ UNCHANGED <<pool_vars, run_vars>>
    /\ UNCHANGED <<config, items, vectors, vecs, threshold, tries, clusters,
                   merge_th, singletons, non_single, si, moved, passes>>

Next ==
    \/ ReadItems
    \/ Embed
    \/ Fallback
    \/ ClusterFirst
    \/ LowerThreshold
    \/ StartReconcile
    \/ ReconcileOne
    \/ ReconcileEnd
    \/ SortTruncate
    \/ BuildTopics

Spec == Init /\ [][Next]_vars

----------------------------------------------------------------------------
(* A run whose greedy pass is taken vector by vector *)

\* Raw vectors of these runs: directions 0, 180, 90, 12, 24 and 204
\* degrees and the zero vector.
PassVectors ==
    { <<2000, 0>>, <<-2000, 0>>, <<0, 3000>>, <<978, 208>>, <<914, 407>>,
      <<-914, -407>>, <<0, 0>> }

\* Values of similarity_threshold, which the band leaves as they are.
PassThresholds == { -1000, -500, 0, 820, 980, 1000 }

\* Configurations whose band is [th - 0.06, th] and whose target is never
\* exceeded, so that the first pass is the only one.
PassConfigs == { Cfg(5, 2, th, th - 60, th) : th \in PassThresholds }

\* main() up to the entry of the first _cluster_with_threshold(threshold):
\* cl = [], idx = 0.
PassInit ==
    /\ pc = "pass"
    /\ PoolIdle
    /\ RunIdle
    /\ config \in PassConfigs
    /\ \E n \in 1..MaxPass :
        /\ items = [ k \in 1..n |-> [ rid |-> k ] ]
        /\ vectors \in [ 1..n -> PassVectors ]
    /\ vecs = [ k \in 1..Len(vectors) |-> _norm(vectors[k]) ]
    /\ threshold = ClampedThreshold
    /\ tries = 0
    /\ clusters = << >>
    /\ merge_th = 0
    /\ singletons = << >>
    /\ non_single = << >>
    /\ si = 0
    /\ moved = 0
    /\ topic_dicts = << >>
    /\ written = FALSE
    /\ passes = 0

\* One iteration of "for idx, v in enumerate(vecs)"; si is idx.
PassStep ==
    /\ pc = "pass"
    /\ si < Len(vecs)
    /\ clusters' = GreedyStep(clusters, si, vecs[si + 1], threshold)
    /\ si' = si + 1
    /\ UNCHANGED <<pool_vars, run_vars>>
    /\ UNCHANGED <<pc, config, items, vectors, vecs, threshold, tries,
                   merge_th, singletons, non_single, moved, topic_dicts,
                   written, passes>>

\* return cl; clusters = _cluster_with_threshold(threshold); tries = 0
PassEnd ==
    /\ pc = "pass"
    /\ si = Len(vecs)
    /\ pc' = "search"
    /\ passes' = passes + 1
    /\ UNCHANGED <<pool_vars, run_vars>>
    /\ UNCHANGED <<config, items, vectors, vecs, threshold, tries, clusters,
                   merge_th, singletons, non_single, si, moved, topic_dicts,
                   written>>

PassNext ==
    \/ PassStep
    \/ PassEnd
    \/ StartReconcile
    \/ ReconcileOne
    \/ ReconcileEnd

PassSpec == PassInit /\ [][PassNext]_vars

----------------------------------------------------------------------------
(* A run from the embeddings to the end of the threshold search *)

\* Raw vectors of these runs: one direction and the zero vector, so that a
\* batch has as many clusters as it has zero vectors, and one more when it
\* has another vector.
WideVectors == { <<2000, 0>>, <<0, 0>> }

\* Targets 0..6, each with the default threshold and with a threshold less
\* than one step above the floor.
SearchConfigs ==
    { Cfg(mt, 2, th, 600, 900) : mt \in 0..6, th \in { 820, 610 } }

\* main() after litellm_embed returned one vector per record.
SearchInit ==
    /\ pc = "embedded"
    /\ PoolIdle
    /\ RunIdle
    /\ config \in SearchConfigs
    /\ \E n \in 1..MaxWide :
        /\ items = [ k \in 1..n |-> [ rid |-> k ] ]
        /\ vectors \in [ 1..n -> WideVectors ]
    /\ vecs = << >>
    /\ threshold = 0
    /\ tries = 0
    /\ clusters = << >>
    /\ merge_th = 0
    /\ singletons = << >>
    /\ non_single = << >>
    /\ si = 0
    /\ moved = 0
    /\ topic_dicts = << >>
    /\ written = FALSE
    /\ passes = 0

SearchNext ==
    \/ ClusterFirst
    \/ LowerThreshold
    \/ StartReconcile

SearchSpec == SearchInit /\ [][SearchNext]_vars

----------------------------------------------------------------------------
(* Topic naming over the worker pool *)

\* Records of a run that is followed through the naming of its topics.
MaxNamed == 4

\* "未命名主題"
Placeholder == [ kind |-> "placeholder", of |-> << >> ]

\* The headline h as a title.
Headline(h) == [ kind |-> "headline", of |-> << h >> ]

\* The first line of the chat reply to the sample made of headlines[:6].
ChatTitle(heads) == [ kind |-> "chat", of |-> Take(heads, 6) ]

\* ""
EmptyTitle == [ kind |-> "empty", of |-> << >> ]

\* The exception a future holds when its call raised.
Raised == [ kind |-> "raised", of |-> << >> ]

\* heads[0] if heads else "未命名主題"
FirstHeadline(heads) ==
    IF heads # << >> THEN Headline(heads[1]) ELSE Placeholder

\* [str(it.get("title")) for it in cluster_items if it.get("title")]
\* (title 0 stands for a missing or empty title)
Headlines(c) ==
    LET kept == SelectSeq(ClusterItems(c), LAMBDA it : it.title # 0)
    IN  [ k \in 1..Len(kept) |-> kept[k].title ]

\* _title_with_chat: the chat reply's first line, or the first headline when
\* litellm_chat returned "" (it returns "" on every request failure).
_title_with_chat(heads, reply) ==
    LET title == IF reply = "text" THEN ChatTitle(heads) ELSE EmptyTitle
    IN  IF title = EmptyTitle THEN FirstHeadline(heads) ELSE title

naming_max_workers == config.naming_max_workers

\* len(indices) <= 1 or len(heads) <= 1: no chat call for this cluster
Skipped(p) == Len(p.indices) <= 1 \/ Len(p.headlines) <= 1

\* to_name, in the order of the loop over prepared
to_name ==
    SelectSeq([ i \in 1..Len(prepared) |-> i ],
              LAMBDA i : ~Skipped(prepared[i]))

Running(fs) == { i \in DOMAIN fs : fs[i].st = "running" }

\* The dict d with d[i] = t.
Put(d, i, t) ==
    [ j \in (DOMAIN d) \cup { i } |-> IF j = i THEN t ELSE d[j] ]

\* Clusters as the sort and the truncation leave them: sizes non-increasing.
RECURSIVE SumSeq(_)
SumSeq(s) == IF s = << >> THEN 0 ELSE s[1] + SumSeq(Tail(s))

NamingSizes(n) ==
    { s \in UNION { [ 1..m -> 1..n ] : m \in 1..3 } :
        /\ SumSeq(s) = n
        /\ \A k \in 1..(Len(s) - 1) : s[k] >= s[k + 1] }

NamingClusters(s) ==
    [ k \in 1..Len(s) |->
        [ centroid |-> << Scale, 0 >>,
          indices  |-> [ j \in 1..s[k] |->
                           SumSeq(SubSeq(s, 1, k - 1)) + j - 1 ] ] ]

NamingConfigs ==
    { WithWorkers(Cfg(3, mi, 820, 600, 900), w) :
        mi \in { 1, 2, 15 }, w \in { 1, 2 } }

NamingInit ==
    /\ pc = "assemble"
    /\ PoolIdle
    /\ RunIdle
    /\ config \in NamingConfigs
    /\ \E n \in 2..MaxNamed :
        /\ \E has \in [ 1..n -> BOOLEAN ] :
             items = [ k \in 1..n |->
                         [ rid |-> k, title |-> IF has[k] THEN k ELSE 0 ] ]
        /\ \E s \in NamingSizes(n) : clusters = NamingClusters(s)
    /\ vectors = << >>
    /\ vecs = << >>
    /\ threshold = 0
    /\ tries = 0
    /\ merge_th = 0
    /\ singletons = << >>
    /\ non_single = << >>
    /\ si = 0
    /\ moved = 0
    /\ topic_dicts = << >>
    /\ written = FALSE
    /\ passes = 0

\* prepared.append({"indices", "items", "headlines"}) for c in clusters
Prepare ==
    /\ pc = "assemble"
    /\ IF IndexError
       THEN /\ pc' = "error"
            /\ UNCHANGED prepared
       ELSE /\ prepared' = [ i \in 1..Len(clusters) |->
                               [ indices   |-> clusters[i].indices,
                                 items     |-> ClusterItems(clusters[i]),
                                 headlines |-> Headlines(clusters[i]) ] ]
            /\ pc' = "name"
    /\ UNCHANGED <<titles, futures, topics, research_rows_map, research_rows>>
    /\ UNCHANGED run_vars
    /\ UNCHANGED <<config, items, vectors, vecs, threshold, tries, clusters,
                   merge_th, singletons, non_single, si, moved, topic_dicts,
                   written, passes>>

\* The loop that fills titles for the skipped clusters and to_name for the
\* others, then the submission of one call per index of to_name.
SubmitNaming ==
    /\ pc = "name"
    /\ titles' = [ i \in { j \in 1..Len(prepared) : Skipped(prepared[j]) } |->
                     FirstHeadline(prepared[i].headlines) ]
    /\ futures' = [ i \in { to_name[k] : k \in 1..Len(to_name) } |->
                      [ st |-> "queued", result |-> EmptyTitle ] ]
    /\ pc' = IF to_name = << >> THEN "titled" ELSE "collect"
    /\ UNCHANGED <<prepared, topics, research_rows_map, research_rows>>
    /\ UNCHANGED run_vars
    /\ UNCHANGED cluster_vars_but_pc

\* A queued call is taken by a free worker of the pool.
NamingWorkerStart ==
    /\ pc = "collect"
    /\ \E i \in DOMAIN futures :
        /\ futures[i].st = "queued"
        /\ Cardinality(Running(futures)) < naming_max_workers
        /\ futures' = [ futures EXCEPT ![i].st = "running" ]
    /\ UNCHANGED <<prepared, titles, topics, research_rows_map,
                   research_rows>>
    /\ UNCHANGED run_vars
    /\ UNCHANGED cluster_vars

\* A running call returns _title_with_chat(prepared[i]["headlines"], config)
\* or raises.
NamingWorkerFinish ==
    /\ pc = "collect"
    /\ \E i \in DOMAIN futures :
        /\ futures[i].st = "running"
        /\ \E r \in { _title_with_chat(prepared[i].headlines, reply) :
                        reply \in { "text", "" } } \cup { Raised } :
             futures' = [ futures EXCEPT ![i] =
                            [ st |-> "done", result |-> r ] ]
    /\ UNCHANGED <<prepared, titles, topics, research_rows_map,
                   research_rows>>
    /\ UNCHANGED run_vars
    /\ UNCHANGED cluster_vars

\* t = fut.result(), "" when it raises; the first headline when t is empty
CollectedTitle(i) ==
    LET t == IF futures[i].result = Raised THEN EmptyTitle
             ELSE futures[i].result
    IN  IF t = EmptyTitle THEN FirstHeadline(prepared[i].headlines) ELSE t

\* CollectNaming storing the k-th collected title under the k-th submitted
\* index.
CollectNamingInSubmissionOrder ==
    /\ pc = "collect"
    /\ \E i \in DOMAIN futures :
        /\ futures[i].st = "done"
        /\ LET k == Cardinality({ j \in DOMAIN futures :
                                    futures[j].st = "collected" }) + 1
           IN  titles' = Put(titles, to_name[k], CollectedTitle(i))
        /\ futures' = [ futures EXCEPT ![i].st = "collected" ]
        /\ pc' = IF \A j \in DOMAIN futures :
                        j # i => futures[j].st = "collected"
                 THEN "titled" ELSE "collect"
    /\ UNCHANGED <<prepared, topics, research_rows_map, research_rows>>
    /\ UNCHANGED run_vars
    /\ UNCHANGED cluster_vars_but_pc

\* One turn of the loop over as_completed(futures): i = futures[fut],
\* titles[i] = t.  The loop ends when every future has been yielded.
CollectNaming ==
    /\ pc = "collect"
    /\ \E i \in DOMAIN futures :
        /\ futures[i].st = "done"
        /\ titles' = Put(titles, i, CollectedTitle(i))
        /\ futures' = [ futures EXCEPT ![i].st = "collected" ]
        /\ pc' = IF \A j \in DOMAIN futures :
                        j # i => futures[j].st = "collected"
                 THEN "titled" ELSE "collect"
    /\ UNCHANGED <<prepared, topics, research_rows_map, research_rows>>
    /\ UNCHANGED run_vars
    /\ UNCHANGED cluster_vars_but_pc

TitledTopic(i) ==
    [ topic_id |-> TopicId(i),
      title    |-> IF i \in DOMAIN titles THEN titles[i]
                   ELSE FirstHeadline(prepared[i].headlines),
      count    |-> Len(prepared[i].indices),
      items    |-> prepared[i].items ]

\* The loop that appends one dict per entry of prepared, and write_text.
AssembleTitled ==
    /\ pc = "titled"
    /\ topic_dicts' = [ i \in 1..Len(prepared) |-> TitledTopic(i) ]
    /\ written' = TRUE
    /\ pc' = "done"
    /\ UNCHANGED pool_vars
    /\ UNCHANGED run_vars
    /\ UNCHANGED <<config, items, vectors, vecs, threshold, tries, clusters,
                   merge_th, singletons, non_single, si, moved, passes>>

NamingNext ==
    \/ Prepare
    \/ SubmitNaming
    \/ NamingWorkerStart
    \/ NamingWorkerFinish
    \/ CollectNaming
    \/ AssembleTitled

NamingSpec == NamingInit /\ [][NamingNext]_vars

----------------------------------------------------------------------------
(* run_daily.py: the lock file and the step loop *)

\* Invocations of run_daily under way at the same time.
MaxRuns == 2

Runs == 1..MaxRuns

\* build_steps: the fixed list of step names
build_steps ==
    << "fetch_metrics", "ingest_miniflux", "preprocess", "cluster_today",
       "deepresearch", "build_report" >>

\* No script is under way: the variables of cluster_today and of the pools
\* are idle.
ScriptsIdle ==
    /\ pc = "idle"
    /\ PoolIdle
    /\ config = Cfg(3, 2, 820, 600, 900)
    /\ items = << >>
    /\ vectors = << >>
    /\ vecs = << >>
    /\ threshold = 0
    /\ tries = 0
    /\ clusters = << >>
    /\ merge_th = 0
    /\ singletons = << >>
    /\ non_single = << >>
    /\ si = 0
    /\ moved = 0
    /\ topic_dicts = << >>
    /\ written = FALSE
    /\ passes = 0

\* Every invocation is at the top of main(); LOCK_FILE is absent, or was left
\* behind by an earlier run that was killed (writer 0).
RunInit ==
    /\ ScriptsIdle
    /\ lock \in { NoLock, [ exists |-> TRUE, writer |-> 0 ] }
    /\ rpc = [ p \in Runs |-> "start" ]
    /\ started = [ p \in Runs |-> << >> ]
    /\ status = [ p \in Runs |-> "none" ]

\* if LOCK_FILE.exists(): write_log(...); sys.exit("pipeline is running, exit.")
CheckLock(p) ==
    /\ rpc[p] = "start"
    /\ IF lock.exists
       THEN /\ rpc' = [ rpc EXCEPT ![p] = "done" ]
            /\ status' = [ status EXCEPT ![p] = "1" ]
       ELSE /\ rpc' = [ rpc EXCEPT ![p] = "try" ]
            /\ UNCHANGED status
    /\ UNCHANGED <<lock, started>>
    /\ UNCHANGED <<cluster_vars, pool_vars>>

\* LOCK_FILE.write_text("running")
WriteLock(p) ==
    /\ rpc[p] = "try"
    /\ lock' = [ exists |-> TRUE, writer |-> p ]
    /\ rpc' = [ rpc EXCEPT ![p] = "loop" ]
    /\ UNCHANGED <<started, status>>
    /\ UNCHANGED <<cluster_vars, pool_vars>>

\* The next turn of the loop over build_steps: run_step launches the command;
\* Popen raising makes run_step return False, and main calls sys.exit(1).
StartStep(p) ==
    /\ rpc[p] = "loop"
    /\ Len(started[p]) < Len(build_steps)
    /\ LET name == build_steps[Len(started[p]) + 1]
       IN  \/ /\ started' = [ started EXCEPT ![p] =
                    Append(@, [ name |-> name, rc |-> "running" ]) ]
              /\ rpc' = [ rpc EXCEPT ![p] = "step" ]
              /\ UNCHANGED status
           \/ /\ started' = [ started EXCEPT ![p] =
                    Append(@, [ name |-> name, rc |-> "exception" ]) ]
              /\ rpc' = [ rpc EXCEPT ![p] = "finally" ]
              /\ status' = [ status EXCEPT ![p] = "1" ]
    /\ UNCHANGED lock
    /\ UNCHANGED <<cluster_vars, pool_vars>>

\* FinishStep going on to the next step whatever the step returned.
FinishStepIgnoringFailure(p) ==
    /\ rpc[p] = "step"
    /\ \E rc \in { "0", "nonzero", "exception" } :
        /\ started' = [ started EXCEPT ![p][Len(started[p])].rc = rc ]
        /\ rpc' = [ rpc EXCEPT ![p] = "loop" ]
        /\ UNCHANGED status
    /\ UNCHANGED lock
    /\ UNCHANGED <<cluster_vars, pool_vars>>

\* The child ends: run_step returns True when rc == 0, False when rc != 0 or
\* when reading its output raised; on False main calls sys.exit(1).
FinishStep(p) ==
    /\ rpc[p] = "step"
    /\ \E rc \in { "0", "nonzero", "exception" } :
        /\ started' = [ started EXCEPT ![p][Len(started[p])].rc = rc ]
        /\ IF rc = "0"
           THEN /\ rpc' = [ rpc EXCEPT ![p] = "loop" ]
                /\ UNCHANGED status
           ELSE /\ rpc' = [ rpc EXCEPT ![p] = "finally" ]
                /\ status' = [ status EXCEPT ![p] = "1" ]
    /\ UNCHANGED lock
    /\ UNCHANGED <<cluster_vars, pool_vars>>

\* The loop over build_steps is exhausted.
EndSteps(p) ==
    /\ rpc[p] = "loop"
    /\ Len(started[p]) = Len(build_steps)
    /\ rpc' = [ rpc EXCEPT ![p] = "finally" ]
    /\ status' = [ status EXCEPT ![p] = "0" ]
    /\ UNCHANGED <<lock, started>>
    /\ UNCHANGED <<cluster_vars, pool_vars>>

\* ReleaseCheck of a main() that releases the lock after the loop instead of
\* in a finally clause: a run that called sys.exit(1) skips the release.
ReleaseCheckAfterLoop(p) ==
    /\ rpc[p] = "finally"
    /\ rpc' = [ rpc EXCEPT ![p] =
                  IF lock.exists /\ status[p] = "0" THEN "unlink" ELSE "done" ]
    /\ UNCHANGED <<lock, started, status>>
    /\ UNCHANGED <<cluster_vars, pool_vars>>

\* finally: if LOCK_FILE.exists():
ReleaseCheck(p) ==
    /\ rpc[p] = "finally"
    /\ rpc' = [ rpc EXCEPT ![p] = IF lock.exists THEN "unlink" ELSE "done" ]
    /\ UNCHANGED <<lock, started, status>>
    /\ UNCHANGED <<cluster_vars, pool_vars>>

\* LOCK_FILE.unlink(): removes the file, or raises FileNotFoundError when
\* another invocation removed it since the test.
Unlink(p) ==
    /\ rpc[p] = "unlink"
    /\ lock' = NoLock
    /\ status' = [ status EXCEPT ![p] = IF lock.exists THEN @ ELSE "1" ]
    /\ rpc' = [ rpc EXCEPT ![p] = "done" ]
    /\ UNCHANGED started
    /\ UNCHANGED <<cluster_vars, pool_vars>>

RunNext ==
    \E p \in Runs :
        \/ CheckLock(p)
        \/ WriteLock(p)
        \/ StartStep(p)
        \/ FinishStep(p)
        \/ EndSteps(p)
        \/ ReleaseCheck(p)
        \/ Unlink(p)

RunSpec == RunInit /\ [][RunNext]_vars

----------------------------------------------------------------------------
(* deepresearch.py: one research row per topic, over the worker pool *)

\* Topics in the topics file of a research run.
MaxResearched == 3

\* "topic-unknown"
UnknownId == [ prefix |-> "topic-unknown", digits |-> << >> ]

\* str(topic.get("topic_id", "topic-unknown"))
RowId(topic) == IF topic.has_id THEN topic.topic_id ELSE UnknownId

\* _default_row(topic_id, title, items); sources is the number of items that
\* carry a url.
_default_row(topic) ==
    [ topic_id      |-> RowId(topic),
      summary       |-> "N/A",
      market_impact |-> "N/A",
      sentiment     |-> 5,
      source_count  |-> topic.sources ]

\* _research_one: the default row, updated from the JSON object of the reply
\* when there is one; a failed request (reply "") or an exception inside the
\* try block leaves the default row.
_research_one(topic, reply) ==
    IF reply = "json"
    THEN [ _default_row(topic) EXCEPT !.summary = "reply",
                                      !.market_impact = "reply",
                                      !.sentiment = 7 ]
    ELSE _default_row(topic)

research_max_workers == config.research_max_workers

\* The topics file: a list of topic dicts; ids as cluster_today writes them,
\* in any order, or a dict without the key.
TopicDicts ==
    { [ has_id |-> TRUE, topic_id |-> TopicId(1), sources |-> 2 ],
      [ has_id |-> TRUE, topic_id |-> TopicId(2), sources |-> 1 ],
      [ has_id |-> FALSE, topic_id |-> UnknownId, sources |-> 0 ] }

TopicsFiles == UNION { [ 1..n -> TopicDicts ] : n \in 0..MaxResearched }

ResearchConfigs ==
    { WithWorkers(Cfg(3, 2, 820, 600, 900), w) : w \in { 1, 2 } }

\* main() of deepresearch has loaded the topics file.
ResearchInit ==
    /\ pc = "research"
    /\ RunIdle
    /\ config \in ResearchConfigs
    /\ topics \in TopicsFiles
    /\ prepared = << >>
    /\ titles = << >>
    /\ futures = << >>
    /\ research_rows_map = << >>
    /\ research_rows = << >>
    /\ items = << >>
    /\ vectors = << >>
    /\ vecs = << >>
    /\ threshold = 0
    /\ tries = 0
    /\ clusters = << >>
    /\ merge_th = 0
    /\ singletons = << >>
    /\ non_single = << >>
    /\ si = 0
    /\ moved = 0
    /\ topic_dicts = << >>
    /\ written = FALSE
    /\ passes = 0

\* futures = {ex.submit(_research_one, i, topic): i for i, topic in
\* enumerate(topics)}; with no topic the loop over as_completed ends at once.
SubmitResearch ==
    /\ pc = "research"
    /\ futures' = [ i \in 1..Len(topics) |->
                      [ st |-> "queued", reply |-> "",
                        result |-> _default_row(topics[i]) ] ]
    /\ pc' = IF topics = << >> THEN "rows" ELSE "collect_rows"
    /\ UNCHANGED <<prepared, titles, topics, research_rows_map,
                   research_rows>>
    /\ UNCHANGED run_vars
    /\ UNCHANGED cluster_vars_but_pc

\* A queued call is taken by a free worker of the pool.
ResearchWorkerStart ==
    /\ pc = "collect_rows"
    /\ \E i \in DOMAIN futures :
        /\ futures[i].st = "queued"
        /\ Cardinality(Running(futures)) < research_max_workers
        /\ futures' = [ futures EXCEPT ![i].st = "running" ]
    /\ UNCHANGED <<prepared, titles, topics, research_rows_map,
                   research_rows>>
    /\ UNCHANGED run_vars
    /\ UNCHANGED cluster_vars

\* A running call returns _research_one(i, topic), or raises.
ResearchWorkerFinish ==
    /\ pc = "collect_rows"
    /\ \E i \in DOMAIN futures :
        /\ futures[i].st = "running"
        /\ \E reply \in { "json", "", "raise" } :
             futures' = [ futures EXCEPT ![i] =
                            [ st |-> "done", reply |-> reply,
                              result |-> _research_one(topics[i], reply) ] ]
    /\ UNCHANGED <<prepared, titles, topics, research_rows_map,
                   research_rows>>
    /\ UNCHANGED run_vars
    /\ UNCHANGED cluster_vars

\* row = fut.result(), or the default row of topics[i] when it raises
CollectedRow(i) ==
    IF futures[i].reply = "raise" THEN _default_row(topics[i])
    ELSE futures[i].result

\* CollectResearch storing the k-th collected row under index k.
CollectResearchInCompletionOrder ==
    /\ pc = "collect_rows"
    /\ \E i \in DOMAIN futures :
        /\ futures[i].st = "done"
        /\ LET k == Cardinality({ j \in DOMAIN futures :
                                    futures[j].st = "collected" }) + 1
           IN  research_rows_map' = Put(research_rows_map, k, CollectedRow(i))
        /\ futures' = [ futures EXCEPT ![i].st = "collected" ]
        /\ pc' = IF \A j \in DOMAIN futures :
                        j # i => futures[j].st = "collected"
                 THEN "rows" ELSE "collect_rows"
    /\ UNCHANGED <<prepared, titles, topics, research_rows>>
    /\ UNCHANGED run_vars
    /\ UNCHANGED cluster_vars_but_pc

\* One turn of the loop over as_completed(futures): i = futures[fut],
\* research_rows_map[i] = row.
CollectResearch ==
    /\ pc = "collect_rows"
    /\ \E i \in DOMAIN futures :
        /\ futures[i].st = "done"
        /\ research_rows_map' = Put(research_rows_map, i, CollectedRow(i))
        /\ futures' = [ futures EXCEPT ![i].st = "collected" ]
        /\ pc' = IF \A j \in DOMAIN futures :
                        j # i => futures[j].st = "collected"
                 THEN "rows" ELSE "collect_rows"
    /\ UNCHANGED <<prepared, titles, topics, research_rows>>
    /\ UNCHANGED run_vars
    /\ UNCHANGED cluster_vars_but_pc

\* research_rows = [research_rows_map[i] for i in range(total)]; write_jsonl
WriteRows ==
    /\ pc = "rows"
    /\ research_rows' = [ i \in 1..Len(topics) |-> research_rows_map[i] ]
    /\ pc' = "done"
    /\ UNCHANGED <<prepared, titles, futures, topics, research_rows_map>>
    /\ UNCHANGED run_vars
    /\ UNCHANGED cluster_vars_but_pc

ResearchNext ==
    \/ SubmitResearch
    \/ ResearchWorkerStart
    \/ ResearchWorkerFinish
    \/ CollectResearch
    \/ WriteRows

ResearchSpec == ResearchInit /\ [][ResearchNext]_vars

----------------------------------------------------------------------------
(* A run of cluster_today on a date that may already have a topics file *)

\* The content of topics_path when main() starts: no file, or the topics an
\* earlier run wrote for the date.
PreviousTopics ==
    { << >>,
      << [ topic_id |-> TopicId(1), count |-> 2,
           items |-> << [ rid |-> 1 ], [ rid |-> 2 ] >> ],
         [ topic_id |-> TopicId(2), count |-> 1,
           items |-> << [ rid |-> 3 ] >> ] >> }

RerunConfigs == { Cfg(3, 2, 820, 600, 900), Cfg(1, 1, 820, 800, 900) }

RerunInit ==
    /\ pc = "read"
    /\ PoolIdle
    /\ RunIdle
    /\ config \in RerunConfigs
    /\ topic_dicts \in PreviousTopics
    /\ written = FALSE
    /\ items = << >>
    /\ vectors = << >>
    /\ vecs = << >>
    /\ threshold = 0
    /\ tries = 0
    /\ clusters = << >>
    /\ merge_th = 0
    /\ singletons = << >>
    /\ non_single = << >>
    /\ si = 0
    /\ moved = 0
    /\ passes = 0

RerunSpec == RerunInit /\ [][Next]_vars

----------------------------------------------------------------------------
(* Properties *)

MemberSet(c) == { c.indices[k] : k \in 1..Len(c.indices) }

IsPartition(cs, n) ==
    /\ \A i \in 1..Len(cs) : Cardinality(MemberSet(cs[i])) = Len(cs[i].indices)
    /\ \A i, j \in 1..Len(cs) : i # j => MemberSet(cs[i]) \cap MemberSet(cs[j]) = {}
    /\ UNION { MemberSet(cs[i]) : i \in 1..Len(cs) } = 0..(n - 1)

\* C1: Partition invariant.  When a greedy pass has ended, and when the
\* threshold search and the reconciliation pass have ended (before the sort
\* and the truncation), the clusters' member-index lists are pairwise
\* disjoint, hold no index twice, and their union is {0..n-1}.
C1_Partition ==
    pc \in { "search", "sort" } => IsPartition(clusters, Len(vectors))

\* The search lowered the threshold, the reconciliation pass merged a
\* singleton, and more than one cluster is left.
C1_Witness ==
    /\ pc = "sort"
    /\ tries > 0
    /\ moved > 0
    /\ Len(clusters) >= 2
    /\ Len(vectors) >= 4

\* C2: Fallback totality.  When the provider returned an empty list or a
\* list of another length than the records, the run never enters the
\* clusterer: it ends normally having written exactly one topic, topic-001,
\* whose count is the number of records and whose items are all the records.
C2_FallbackTotality ==
    ( /\ pc \notin { "read", "embed", "embedded" }
      /\ items # << >>
      /\ (vectors = << >> \/ Len(vectors) # Len(items)) )
    => /\ pc = "done"
       /\ written
       /\ passes = 0
       /\ clusters = << >>
       /\ Len(topic_dicts) = 1
       /\ topic_dicts[1].topic_id = [ prefix |-> "topic-", digits |-> << 0, 0, 1 >> ]
       /\ topic_dicts[1].count = Len(items)
       /\ topic_dicts[1].items = items

\* A run that ended through the fallback on a non-empty result of the
\* wrong length.
C2_Witness ==
    /\ pc = "done"
    /\ written
    /\ vectors # << >>
    /\ Len(vectors) < Len(items)
    /\ Len(topic_dicts) = 1

CountsNonIncreasing ==
    \A i \in 1..(Len(topic_dicts) - 1) :
        topic_dicts[i].count >= topic_dicts[i + 1].count

\* C3 as stated: every run that emits topics emits at most
\* max_topics_per_day of them, with non-increasing member counts.
C3_Original ==
    written => /\ Len(topic_dicts) <= max_topics
               /\ CountsNonIncreasing

\* C3, amended: member counts are non-increasing in every emitted list; a
\* run on the clustering path emits at most max_topics_per_day topics; a
\* fallback run emits exactly one topic whatever the maximum is.
C3_TopicCount ==
    written => /\ CountsNonIncreasing
               /\ passes > 0 => Len(topic_dicts) <= max_topics
               /\ passes = 0 => Len(topic_dicts) = 1

\* The truncation dropped a cluster and the counts differ.
C3_Witness ==
    /\ written
    /\ passes > 0
    /\ Len(topic_dicts) = max_topics
    /\ Len(topic_dicts) >= 2
    /\ topic_dicts[1].count > topic_dicts[2].count
    /\ topic_dicts[1].count + topic_dicts[2].count < Len(items)

\* C4: The threshold loop terminates.  There are at most 6 re-clusterings
\* and 7 clusterer runs; a re-clustering happens only while the count is
\* above the band, the threshold above its floor and fewer than 6 were
\* done; the loop is left, without an error and with the current clusters
\* kept, as soon as one of the three fails; every step that stays in the
\* loop raises tries, so the loop is left after at most 6 of them.
C4_LoopTerminates ==
    /\ [](/\ tries <= 6
          /\ passes <= 7
          /\ passes > 0 => passes = tries + 1)
    /\ [][ tries' # tries =>
             /\ tries' = tries + 1
             /\ passes' = passes + 1
             /\ Len(clusters) > desired_max
             /\ threshold > th_min
             /\ tries < 6 ]_vars
    /\ [][ (pc = "search" /\ pc' # "search") =>
             /\ (Len(clusters) <= desired_max \/ threshold <= th_min \/ tries = 6)
             /\ pc' \in { "reconcile", "sort" }
             /\ clusters' = clusters ]_vars
    /\ [][ (pc = "search" /\ pc' = "search") => tries' = tries + 1 ]_vars

\* The iteration bound ended the loop: the count is still above the band,
\* the threshold still above the floor, and the last re-clustering did not
\* lower the count.
C4_Witness ==
    /\ pc = "search"
    /\ tries = 6
    /\ threshold > th_min
    /\ Len(clusters) > desired_max
    /\ Len(clusters) >= Len(_cluster_with_threshold(vecs, threshold + ThresholdStep))

\* Similarity of the only member of singleton s to the centroid of h.
SimToHost(s, h) == _cosine(vecs[s.indices[1] + 1], h.centroid)

ClusterCount(t) == Len(_cluster_with_threshold(vecs, t))

\* C6 as stated: for every batch, a greedy pass at the lower of two
\* thresholds yields at most as many clusters as a pass at the higher.
C6_Original ==
    (pc = "search" /\ tries = 0) =>
        \A t1, t2 \in Thresholds :
            t1 < t2 => ClusterCount(t1) <= ClusterCount(t2)

\* C6, amended: for batches of at most 3 vectors, a greedy pass at the
\* lower of two thresholds yields at most as many clusters as a pass at the
\* higher.
C6_Monotone ==
    (pc = "search" /\ tries = 0 /\ Len(vecs) <= 3) =>
        \A t1, t2 \in Thresholds :
            t1 < t2 => ClusterCount(t1) <= ClusterCount(t2)

\* A batch of 3 vectors that the lower threshold merges further.
C6_Witness ==
    /\ pc = "search"
    /\ tries = 0
    /\ Len(vecs) = 3
    /\ \E t1, t2 \in Thresholds :
           /\ t1 < t2
           /\ ClusterCount(t1) = 1
           /\ ClusterCount(t2) = 3

\* An upper bound on the steps main() has left.
Rank ==
    CASE pc = "read"      -> MaxTries + MaxLen + 8
      [] pc = "embed"     -> MaxTries + MaxLen + 7
      [] pc = "embedded"  -> MaxTries + MaxLen + 6
      [] pc = "search"    -> (MaxTries - tries) + MaxLen + 5
      [] pc = "reconcile" -> (Len(singletons) + 1 - si) + 3
      [] pc = "sort"      -> 2
      [] pc = "assemble"  -> 1
      [] OTHER            -> 0

\* C8: No fatal condition.  No run raises; every step brings the run
\* nearer to its end; and a run over a non-empty record batch that has
\* ended has written a topic list, whatever the provider returned and
\* whatever the threshold configuration.
C8_NoFatal ==
    /\ [](pc # "error")
    /\ [][ Rank' < Rank ]_vars
    /\ []((pc = "done" /\ items # << >>) =>
             /\ written
             /\ (passes = 0 => Len(topic_dicts) = 1)
             /\ (passes > 0 => Len(topic_dicts) = Len(clusters)))

\* A run over a batch with a zero vector, under the configuration whose
\* min is above its max, has ended after a merge.
C8_Witness ==
    /\ pc = "done"
    /\ written
    /\ th_min > th_max
    /\ \E k \in 1..Len(vectors) : vectors[k] = << 0, 0 >>
    /\ \E i \in 1..Len(clusters) : Len(clusters[i].indices) > 1

IsPrefix(s, t) == Len(s) <= Len(t) /\ s = SubSeq(t, 1, Len(s))

\* C9: On the clustering path every topic's count is the full size of its
\* cluster and its items are the first min(count, max_items_per_topic)
\* members in membership order; the reconciliation pass only appends to a
\* host's member list, and the sort moves clusters without changing them.
C9_ItemsPrefix ==
    /\ []((pc = "done" /\ passes > 0) =>
            /\ Len(topic_dicts) = Len(clusters)
            /\ \A i \in 1..Len(clusters) :
                 LET ind == clusters[i].indices
                     m   == Min(Len(ind), max_items_per_topic)
                 IN  /\ topic_dicts[i].count = Len(ind)
                     /\ topic_dicts[i].items =
                            [ k \in 1..m |-> items[ind[k] + 1] ])
    /\ [][ pc = "reconcile" =>
             \A j \in 1..Len(non_single) :
                 IsPrefix(non_single[j].indices, non_single'[j].indices) ]_vars
    /\ [][ pc = "sort" =>
             \A i \in 1..Len(clusters') :
                 \E j \in 1..Len(clusters) : clusters'[i] = clusters[j] ]_vars

\* A topic whose cluster is larger than the cap and whose members are not
\* in ascending index order.
C9_Witness ==
    /\ pc = "done"
    /\ passes > 0
    /\ \E i \in 1..Len(topic_dicts) :
           /\ topic_dicts[i].count > Len(topic_dicts[i].items)
           /\ Len(topic_dicts[i].items) = 2
           /\ clusters[i].indices[2] > clusters[i].indices[3]

\* C10 as stated: every emitted topic, the fallback topic included, has at
\* most max_items_per_topic items.
C10_Original ==
    written =>
        \A i \in 1..Len(topic_dicts) :
            Len(topic_dicts[i].items) <= max_items_per_topic

\* C10, amended: every topic emitted on the clustering path has at most
\* max_items_per_topic items; the fallback topic carries every input
\* record, whatever the cap.
C10_ItemsCap ==
    written =>
        /\ passes > 0 =>
             \A i \in 1..Len(topic_dicts) :
                 Len(topic_dicts[i].items) <= max_items_per_topic
        /\ passes = 0 =>
             \A i \in 1..Len(topic_dicts) :
                 Len(topic_dicts[i].items) = Len(items)

\* A topic on the clustering path cut down to the cap.
C10_Witness ==
    /\ written
    /\ passes > 0
    /\ \E i \in 1..Len(topic_dicts) :
           /\ Len(topic_dicts[i].items) = max_items_per_topic
           /\ topic_dicts[i].count > max_items_per_topic

\* C11: An out-of-range threshold is clamped, never rejected.  Whenever
\* min <= max, the threshold of the first clusterer run lies in [min, max]:
\* it is the configured value when that is inside the band, min when it is
\* below and max when it is above; the first run is a pass at that
\* threshold, and the run goes on without an error.
C11_Clamped ==
    /\ pc # "error"
    /\ (pc = "search" /\ tries = 0 /\ th_min <= th_max) =>
         LET cfg == config.similarity_threshold
         IN  /\ th_min <= threshold /\ threshold <= th_max
             /\ (th_min <= cfg /\ cfg <= th_max) => threshold = cfg
             /\ cfg < th_min => threshold = th_min
             /\ cfg > th_max => threshold = th_max
             /\ clusters = _cluster_with_threshold(vecs, threshold)

\* The first run has been made at max, the configured value being above
\* the band.
C11_Witness ==
    /\ pc = "search"
    /\ tries = 0
    /\ th_min <= th_max
    /\ config.similarity_threshold > th_max
    /\ threshold = th_max
    /\ Len(clusters) >= 2

\* C12 as stated: the iteration bound, the threshold step and the
\* relaxation delta are the configured max_search_iterations,
\* threshold_step and singleton_relax_delta.
C12_Original ==
    /\ [](tries <= config.max_search_iterations)
    /\ [][ tries' # tries =>
             threshold' = Max(th_min, threshold - config.threshold_step) ]_vars
    /\ [][ (pc = "search" /\ pc' # "search") =>
             merge_th' = Max(th_min, threshold - config.singleton_relax_delta) ]_vars

\* C12, amended: the iteration bound, the threshold step and the relaxation
\* delta are the fixed values 6, 0.02 and 0.05; no configuration value
\* changes them: a run whose configuration sets max_search_iterations,
\* threshold_step or singleton_relax_delta to other values still re-clusters
\* up to 6 times, lowers the threshold by 0.02 and relaxes by 0.05.
C12_FixedConstants ==
    /\ [](tries <= 6)
    /\ [][ tries' # tries =>
             threshold' = Max(th_min, threshold - 20) ]_vars
    /\ [][ (pc = "search" /\ pc' # "search") =>
             /\ merge_th' = Max(th_min, threshold - 50)
             /\ (Len(clusters) <= desired_max \/ threshold <= th_min \/ tries = 6) ]_vars

\* A run configured with bound 3, step 0.05 and delta 0.10 has re-clustered
\* 6 times in steps of 0.02 and relaxed by 0.05.
C12_Witness ==
    /\ pc \in { "reconcile", "sort" }
    /\ config.max_search_iterations = 3
    /\ config.threshold_step = 50
    /\ config.singleton_relax_delta = 100
    /\ tries = 6
    /\ threshold = config.similarity_threshold - 6 * 20
    /\ merge_th = threshold - 50

\* The provider returned the same vector for every record.
Identical == \A k \in 1..Len(vectors) : vectors[k] = vectors[1]

\* One cluster holding 0..n-1 in input order.
OneCluster(cl, n) ==
    /\ Len(cl) = 1
    /\ cl[1].indices = [ k \in 1..n |-> k - 1 ]

\* Thresholds up to 0.99, 0 and a negative one included.
LooseThresholds == { -500, 0, 10, 600, 820, 900, 950, 990 }

\* C13 as stated: a batch of n >= 1 identical vectors is collapsed by one
\* greedy pass into exactly one cluster of size n for every threshold
\* t <= 1.0, t = 1.0 included.
C13_Original ==
    (pc = "search" /\ tries = 0 /\ Identical) =>
        \A t \in LooseThresholds \cup Thresholds :
            OneCluster(_cluster_with_threshold(vecs, t), Len(vecs))

\* C13, amended: a batch of n >= 1 identical non-zero vectors is collapsed
\* by one greedy pass into exactly one cluster of size n for every
\* threshold t <= 0.99; at t = 1.0 it is left in more than one cluster
\* when n > 1 and the computed similarity of the normalized vector to
\* itself is rounded below 1.0.
\* A batch of identical zero vectors has similarity 0: it is collapsed for
\* t <= 0 and left as n singletons for every t > 0.
C13_Identical ==
    (pc = "search" /\ tries = 0 /\ Identical) =>
        LET n == Len(vecs)
            self == _cosine(vecs[1], vecs[1])
        IN  /\ vectors[1] # << 0, 0 >> =>
                /\ \A t \in LooseThresholds :
                       OneCluster(_cluster_with_threshold(vecs, t), n)
                /\ (self < Scale /\ n > 1) =>
                       Len(_cluster_with_threshold(vecs, Scale)) > 1
            /\ vectors[1] = << 0, 0 >> =>
                \A t \in LooseThresholds :
                    IF t <= 0
                    THEN OneCluster(_cluster_with_threshold(vecs, t), n)
                    ELSE Len(_cluster_with_threshold(vecs, t)) = n

\* Four identical non-zero vectors: one cluster at 0.99, four at 1.0.
C13_Witness ==
    /\ pc = "search"
    /\ tries = 0
    /\ Len(vecs) = 4
    /\ Identical
    /\ vectors[1] # << 0, 0 >>
    /\ OneCluster(_cluster_with_threshold(vecs, 990), 4)
    /\ Len(_cluster_with_threshold(vecs, Scale)) = 4

Size(c) == Len(c.indices)

\* Position of cluster c in the list cs (clusters have distinct members).
Pos(cs, c) == CHOOSE k \in 1..Len(cs) : cs[k] = c

\* c comes before d in the stable descending order of the list cs.
Before(cs, c, d) ==
    \/ Size(c) > Size(d)
    \/ Size(c) = Size(d) /\ Pos(cs, c) < Pos(cs, d)

\* C14: Output order and identifiers.  The sort and truncation step leaves
\* the first max_topics clusters of the stable descending order by member
\* count: larger clusters first, clusters of equal size in their pre-sort
\* order, and every dropped cluster after every kept one in that order.  The
\* topic at output position k is built from the k-th sorted cluster and has
\* the identifier "topic-" followed by k written with three digits, so the
\* identifiers are distinct and follow the sorted position.
C14_OrderAndIds ==
    /\ [][ pc = "sort" =>
             /\ Len(clusters') = Min(Len(clusters), max_topics)
             /\ \A i \in 1..Len(clusters') :
                    \E k \in 1..Len(clusters) : clusters[k] = clusters'[i]
             /\ \A i, j \in 1..Len(clusters') :
                    i < j => Before(clusters, clusters'[i], clusters'[j])
             /\ \A k \in 1..Len(clusters) :
                    (\A i \in 1..Len(clusters') : clusters'[i] # clusters[k])
                    => \A i \in 1..Len(clusters') :
                           Before(clusters, clusters'[i], clusters[k]) ]_vars
    /\ []((pc = "done" /\ passes > 0) =>
            /\ Len(topic_dicts) = Len(clusters)
            /\ \A k \in 1..Len(topic_dicts) :
                 LET id == topic_dicts[k].topic_id
                 IN  /\ id.prefix = "topic-"
                     /\ Len(id.digits) = 3
                     /\ \A p \in 1..3 : id.digits[p] \in 0..9
                     /\ 100 * id.digits[1] + 10 * id.digits[2] + id.digits[3] = k
                     /\ topic_dicts[k].count = Size(clusters[k])
            /\ \A k, l \in 1..Len(topic_dicts) :
                 k # l => topic_dicts[k].topic_id # topic_dicts[l].topic_id)

\* topic-001 is a cluster of three records created after the cluster of
\* two that became topic-002.
C14_Witness ==
    /\ pc = "done"
    /\ passes > 0
    /\ Len(topic_dicts) = 2
    /\ topic_dicts[1].count = 3
    /\ topic_dicts[2].count = 2
    /\ clusters[2].indices[1] = 0
    /\ clusters[1].indices[1] > 0

\* Similarities of v to the centroids of cl.
Sims(cl, v) == { _cosine(v, cl[k].centroid) : k \in 1..Len(cl) }

\* The largest similarity of v to a centroid of cl, cl not empty.
MaxSim(cl, v) == CHOOSE m \in Sims(cl, v) : \A x \in Sims(cl, v) : x <= m

\* after is cl with idx appended to a cluster of maximum similarity to v.
JoinedMax(cl, idx, v, after) ==
    /\ Len(after) = Len(cl)
    /\ \E k \in 1..Len(cl) :
        /\ _cosine(v, cl[k].centroid) = MaxSim(cl, v)
        /\ after[k].indices = Append(cl[k].indices, idx)
        /\ \A j \in 1..Len(cl) : j # k => after[j] = cl[j]

\* after is cl with the new singleton of idx at its end.
StartedNew(cl, idx, v, after) ==
    after = Append(cl, [ centroid |-> v, indices |-> << idx >> ])

\* C15 as stated: for every threshold t, a vector joins the cluster of
\* maximum similarity if and only if that maximum is >= t, and otherwise
\* starts a new singleton at the end of the list.
C15_Original ==
    [][ (pc = "pass" /\ si' = si + 1) =>
          LET v == vecs[si + 1]
          IN  IF clusters # << >> /\ MaxSim(clusters, v) >= threshold
              THEN JoinedMax(clusters, si, v, clusters')
              ELSE StartedNew(clusters, si, v, clusters') ]_vars

\* C15, amended: for every threshold t > -1.0, a vector joins the cluster of
\* maximum similarity if and only if that maximum is >= t, and otherwise
\* (also when no cluster exists yet) starts a new singleton with centroid v
\* at the end of the list; exactly one of the two happens per vector, for
\* every t.  For t <= -1.0 a vector whose similarity to every centroid is
\* -1.0 or less starts a new singleton although its maximum is >= t, since
\* the scan starts from best_sim = -1.0 and replaces it only by a greater
\* similarity.
C15_GreedyRule ==
    [][ (pc = "pass" /\ si' = si + 1) =>
          LET v == vecs[si + 1]
              joins == JoinedMax(clusters, si, v, clusters')
              starts == StartedNew(clusters, si, v, clusters')
          IN  /\ joins \/ starts
              /\ ~(joins /\ starts)
              /\ threshold > -Scale =>
                   (joins <=> (clusters # << >> /\ MaxSim(clusters, v) >= threshold))
              /\ threshold <= -Scale =>
                   (joins <=> (clusters # << >> /\ MaxSim(clusters, v) > -Scale)) ]_vars

\* A pass at 0.82 in which the second vector joined the first and the
\* third started a cluster of its own.
C15_Witness ==
    /\ pc = "search"
    /\ threshold = 820
    /\ Len(clusters) = 2
    /\ clusters[1].indices = << 0, 1 >>
    /\ clusters[2].indices = << 2 >>
    /\ _cosine(vecs[3], clusters[1].centroid) < 820
    /\ vecs[1] # vecs[2]

\* The clusters of a pass at th after its first idx vectors.
Prefix(idx, th) == _cluster_with_threshold(SubSeq(vecs, 1, idx), th)

\* Cluster k of cl is the first of those most similar to v.
FirstMax(cl, v, k) ==
    /\ \A j \in 1..Len(cl) : _cosine(v, cl[j].centroid) <= _cosine(v, cl[k].centroid)
    /\ \A j \in 1..(k - 1) : _cosine(v, cl[j].centroid) < _cosine(v, cl[k].centroid)

\* v is equally and most similar to two clusters of cl, at th or above.
Tie(cl, v, th) ==
    \E j, k \in 1..Len(cl) :
        /\ j < k
        /\ _cosine(v, cl[j].centroid) = MaxSim(cl, v)
        /\ _cosine(v, cl[k].centroid) = MaxSim(cl, v)
        /\ MaxSim(cl, v) >= th

\* C16: Tie-break.  In the greedy pass and in the reconciliation pass, the
\* cluster a vector is merged into is the first one in the cluster list
\* among those of maximum similarity to it: no cluster is more similar and
\* no earlier cluster is as similar.
C16_TieBreak ==
    /\ [](pc = "search" =>
            \A idx \in 0..(Len(vecs) - 1) :
                LET cl == Prefix(idx, threshold)
                    after == Prefix(idx + 1, threshold)
                IN  \A k \in 1..Len(cl) :
                        after[k].indices # cl[k].indices
                        => FirstMax(cl, vecs[idx + 1], k))
    /\ [][ (pc = "reconcile" /\ si' = si + 1) =>
             \A k \in 1..Len(non_single) :
                 non_single'[k].indices # non_single[k].indices
                 => FirstMax(non_single, vecs[singletons[si].indices[1] + 1], k) ]_vars

\* A greedy pass in which a vector that was equally and most similar to two
\* clusters, at the threshold or above, joined one of them.
C16_Witness ==
    /\ pc = "search"
    /\ \E idx \in 0..(Len(vecs) - 1) :
           /\ Tie(Prefix(idx, threshold), vecs[idx + 1], threshold)
           /\ Len(Prefix(idx + 1, threshold)) = Len(Prefix(idx, threshold))

\* The reconciliation pass is about to merge a singleton that is equally
\* and most similar to two hosts.
C16_ReconcileTie ==
    /\ pc = "reconcile"
    /\ si <= Len(singletons)
    /\ Tie(non_single, vecs[singletons[si].indices[1] + 1], merge_th)

\* c has norm 1 to within 1 percent: what the grid of thousandths leaves of
\* a unit vector that was normalized after a cancellation.
UnitNorm(c) ==
    /\ Dot(c, c) >= Scale * Scale - 20 * Scale
    /\ Dot(c, c) <= Scale * Scale + 20 * Scale

\* a and b are the same unit vector up to rounding: equal, or at a cosine
\* of 0.995 or more (what the grid leaves after a cancellation).
SameUpToRounding(a, b) == a = b \/ _cosine(a, b) >= Scale - 5

\* Every member of cluster c is a zero vector.
AllZero(c) == \A k \in 1..Len(c.indices) : vecs[c.indices[k] + 1] = << 0, 0 >>

\* new is old after absorbing v: its centroid is normalize(old * n + v).
UpdatedCentroid(old, new, v) ==
    LET n == Len(old.indices)
    IN  SameUpToRounding(new.centroid,
                         _norm(<< old.centroid[1] * n + v[1],
                                  old.centroid[2] * n + v[2] >>))

\* The clusters of the pass in progress, or the hosts of the reconciliation.
Current == IF pc = "reconcile" THEN non_single ELSE clusters

\* The vector a step of either pass is about to place.
Placed ==
    IF pc = "reconcile" THEN vecs[singletons[si].indices[1] + 1]
    ELSE vecs[si + 1]

\* A step of either pass has grown cluster k.
Grown(k) ==
    /\ pc \in { "pass", "reconcile" }
    /\ si' = si + 1
    /\ k <= Len(Current)
    /\ Current'[k].indices # Current[k].indices

\* C17 as stated: in every state of the greedy pass and of the
\* reconciliation pass, a centroid that has absorbed v at size n is
\* normalize(old_centroid * n + v), and every centroid is unit-norm, or
\* zero only when every member of its cluster is a zero vector.
C17_Original ==
    /\ [][ \A k \in 1..Len(Current') :
             Grown(k) => UpdatedCentroid(Current[k], Current'[k], Placed) ]_vars
    /\ [](\A k \in 1..Len(Current) :
             \/ UnitNorm(Current[k].centroid)
             \/ Current[k].centroid = << 0, 0 >> /\ AllZero(Current[k]))

\* C17, amended: in every state of the greedy pass and of the
\* reconciliation pass, a centroid that has absorbed v at size n is
\* normalize(old_centroid * n + v) up to rounding, and every centroid is
\* unit-norm up to rounding or the zero vector.  When the pass threshold is
\* above -0.99, a centroid is zero only when every member of its cluster is
\* a zero vector; at the threshold -1.0 a cluster of one vector u absorbs
\* the opposite vector -u when the computed similarity is just above -1.0,
\* and its centroid becomes the zero vector.
C17_Centroid ==
    /\ [][ \A k \in 1..Len(Current') :
             Grown(k) => UpdatedCentroid(Current[k], Current'[k], Placed) ]_vars
    /\ [](\A k \in 1..Len(Current) :
             /\ UnitNorm(Current[k].centroid) \/ Current[k].centroid = << 0, 0 >>
             /\ (threshold > -990 /\ Current[k].centroid = << 0, 0 >>)
                => AllZero(Current[k]))

\* A reconciliation pass has merged a singleton into a host of two: the
\* centroid of the three is unit-norm and is none of the three vectors.
C17_Witness ==
    /\ pc = "reconcile"
    /\ moved > 0
    /\ \E k \in 1..Len(non_single) :
           /\ Len(non_single[k].indices) = 3
           /\ \A j \in 1..3 : non_single[k].centroid # vecs[j]
           /\ UnitNorm(non_single[k].centroid)

\* The members of cluster c all lie in one cluster of cs.
KeptTogether(c, cs) ==
    \E k \in 1..Len(cs) : MemberSet(c) \subseteq MemberSet(cs[k])

\* C18: Re-cluster from scratch.  At every iteration boundary of the
\* threshold search, and when the search ends, the cluster list is the
\* result of one fresh greedy pass over the whole batch, starting from no
\* clusters, at the current threshold; leaving the search changes neither
\* the list nor the threshold.
C18_FromScratch ==
    /\ [](pc = "search" => clusters = GreedyFrom(<< >>, vecs, 0, threshold))
    /\ [][ (pc = "search" /\ pc' # "search") =>
             /\ clusters' = clusters
             /\ threshold' = threshold ]_vars

\* After a re-clustering the list is not a coarsening of the list of the
\* pass before: two vectors that were together are now apart.
C18_Witness ==
    /\ pc = "search"
    /\ tries > 0
    /\ threshold > th_min
    /\ \E k \in 1..Len(GreedyFrom(<< >>, vecs, 0, threshold + ThresholdStep)) :
           ~KeptTogether(GreedyFrom(<< >>, vecs, 0, threshold + ThresholdStep)[k],
                         clusters)

\* C19: Search step condition.  The controller lowers the threshold and
\* re-clusters only when the cluster count exceeds 1.2 x target as real
\* numbers (10 x count > 12 x target), the threshold is above the floor and
\* fewer than 6 re-clusterings have been done; the step lowers the threshold
\* by exactly 0.02, or sets it to the floor when 0.02 lower would be below
\* the floor.
C19_StepCondition ==
    [][ tries' # tries =>
          /\ 10 * Len(clusters) > 12 * max_topics
          /\ threshold > th_min
          /\ tries < 6
          /\ tries' = tries + 1
          /\ threshold' = IF threshold - 20 < th_min THEN th_min
                          ELSE threshold - 20 ]_vars

\* With target 5, a batch of 7 clusters has been re-clustered once, the
\* threshold being set to the floor, less than one step below.
C19_Witness ==
    /\ pc = "search"
    /\ tries = 1
    /\ max_topics = 5
    /\ Len(clusters) = 7
    /\ threshold = th_min
    /\ config.similarity_threshold - 20 < th_min

\* With target 5, a batch of 6 clusters has left the search without a
\* re-clustering, the threshold being above the floor.
C19_NoStepAtSix ==
    /\ pc # "search"
    /\ passes = 1
    /\ tries = 0
    /\ max_topics = 5
    /\ Len(clusters) = 6
    /\ threshold > th_min

\* A step of the reconciliation pass merges the singleton into host k.
MergedInto(k) ==
    /\ pc = "reconcile"
    /\ si' = si + 1
    /\ k <= Len(non_single)
    /\ non_single'[k].indices # non_single[k].indices

\* The host of every merge has at least two members before the merge.
C20_HostsHaveTwo ==
    [][ \A k \in 1..Len(non_single') :
            MergedInto(k) => Len(non_single[k].indices) >= 2 ]_vars

\* C20 as stated: in the reconciliation pass the host of every merge has at
\* least two members immediately before the merge, and no cluster of one
\* member (a singleton examined earlier and retained) is among the
\* candidate hosts of a later singleton.
C20_Original ==
    /\ C20_HostsHaveTwo
    /\ [][ (pc = "reconcile" /\ si' = si + 1) =>
             \A k \in 1..Len(non_single) : Len(non_single[k].indices) >= 2 ]_vars

\* No cluster of cs has two members or more.
AllSingle(cs) == \A k \in 1..Len(cs) : Len(cs[k].indices) = 1

\* No cluster of cs has exactly one member.
NoSingle(cs) == \A k \in 1..Len(cs) : Len(cs[k].indices) # 1

\* C21: If the threshold search ends with singletons only, or with no
\* singleton, the reconciliation pass changes nothing: the run goes straight
\* to the sort with the cluster list, its order, every member list and every
\* centroid as the last greedy pass left them.
C21_PassSkipped ==
    /\ [][ (pc = "search" /\ pc' # "search"
            /\ (AllSingle(clusters) \/ NoSingle(clusters))) =>
             /\ pc' = "sort"
             /\ clusters' = clusters ]_vars
    /\ []((pc = "sort" /\ (singletons = << >> \/ non_single = << >>)) =>
             clusters = GreedyFrom(<< >>, vecs, 0, threshold))

\* Three singletons, two of them similar enough for the relaxed threshold,
\* have reached the sort as three clusters.
C21_Witness ==
    /\ pc = "sort"
    /\ non_single = << >>
    /\ Len(clusters) = 3
    /\ AllSingle(clusters)
    /\ _cosine(vecs[1], vecs[2]) >= merge_th
    /\ _cosine(vecs[1], vecs[2]) < threshold

\* The last member of cluster c.
Last(c) == c.indices[Len(c.indices)]

\* C22: Within the reconciliation pass the singletons are taken in their
\* order in the cluster list, one per step, and each is compared with the
\* centroids the hosts have at that moment, every earlier merge of the pass
\* included: it is merged into the first host most similar to it if that
\* similarity is at least the relaxed threshold, and retained otherwise.
C22_OrderAndCurrentCentroids ==
    /\ [](pc = "reconcile" =>
            /\ \A i \in 1..Len(singletons) :
                   \E k \in 1..Len(clusters) : clusters[k] = singletons[i]
            /\ \A i, j \in 1..Len(singletons) :
                   i < j => Pos(clusters, singletons[i]) < Pos(clusters, singletons[j]))
    /\ [][ (pc = "reconcile" /\ si' = si + 1) =>
             LET c == singletons[si]
                 v == vecs[c.indices[1] + 1]
             IN  IF MaxSim(non_single, v) >= merge_th
                 THEN /\ Len(non_single') = Len(non_single)
                      /\ \E k \in 1..Len(non_single) :
                             /\ FirstMax(non_single, v, k)
                             /\ Last(non_single'[k]) = c.indices[1]
                             /\ Len(non_single'[k].indices) = Len(non_single[k].indices) + 1
                 ELSE non_single' = Append(non_single, c) ]_vars

\* The singleton about to be examined is below the relaxed threshold for
\* every host as the pass found it, and at or above it for a host whose
\* centroid an earlier merge of the pass has moved.
C22_Witness ==
    /\ pc = "reconcile"
    /\ si <= Len(singletons)
    /\ moved > 0
    /\ LET v == vecs[singletons[si].indices[1] + 1]
           start == SelectSeqBySizeGt1(clusters)
       IN  /\ \A k \in 1..Len(start) : _cosine(v, start[k].centroid) < merge_th
           /\ \E k \in 1..Len(start) :
                  _cosine(v, non_single[k].centroid) >= merge_th

\* The titles the claim allows for cluster i: the chat title made from its own
\* headlines, or its first headline (the placeholder when it has none).
OwnTitle(i, t) ==
    LET heads == Headlines(clusters[i])
    IN  /\ t \in { ChatTitle(heads), FirstHeadline(heads) }
        /\ t \notin { EmptyTitle, Raised }
        /\ t = ChatTitle(heads) =>
             /\ i \in DOMAIN futures
             /\ futures[i].result = ChatTitle(heads)
        /\ (i \in DOMAIN futures /\ futures[i].result = Raised) =>
             t = FirstHeadline(heads)

\* C23: whatever the order in which the naming calls complete and whichever
\* of them raise or get an empty reply, every title stored while the futures
\* are collected, and every title of the emitted topics, is non-empty and is
\* the title returned by the call made for that cluster's own headlines, or
\* that cluster's first headline (the placeholder when it has none) when the
\* call failed; there is one emitted topic per cluster, in cluster order,
\* with the id of its position and the count of its cluster.
C23_OwnTitles ==
    /\ \A i \in DOMAIN titles : OwnTitle(i, titles[i])
    /\ (pc = "done" /\ written) =>
         /\ Len(topic_dicts) = Len(clusters)
         /\ \A i \in 1..Len(topic_dicts) :
              /\ OwnTitle(i, topic_dicts[i].title)
              /\ topic_dicts[i].topic_id = TopicId(i)
              /\ topic_dicts[i].count = Len(clusters[i].indices)

\* Two clusters were submitted; the call of the second has been collected
\* (it raised, and the cluster got its first headline) while the call of the
\* first is still running.
C23_Witness ==
    /\ pc = "collect"
    /\ DOMAIN futures = { 1, 2 }
    /\ futures[1].st = "running"
    /\ futures[2].st = "collected"
    /\ futures[2].result = Raised
    /\ titles[2] = Headline(3)

\* Both calls returned a chat title, and the topics are written with them.
C23_WitnessWritten ==
    /\ pc = "done"
    /\ written
    /\ Len(topic_dicts) = 2
    /\ topic_dicts[1].title = ChatTitle(<< 1, 2 >>)
    /\ topic_dicts[2].title = ChatTitle(<< 3, 4 >>)

\* Invocation p is between acquiring the lock and releasing it: it is in the
\* step loop or has a step running.
Holding(p) == rpc[p] \in { "loop", "step" }

\* C24: at most one run_daily invocation at a time is between acquiring the
\* lock and releasing it, that is, executing pipeline steps.
C24_Original ==
    \A p, q \in Runs : (Holding(p) /\ Holding(q)) => p = q

\* C24, second half: an invocation whose test of LOCK_FILE finds the file
\* exits at that step without having started, or ever starting, a step.
C24_RefusedRunsNothing ==
    [][ \A p \in Runs :
          (rpc[p] = "start" /\ lock.exists) =>
             (rpc'[p] = "start" \/ (rpc'[p] = "done" /\ started'[p] = << >>))
      ]_vars /\ [](\A p \in Runs :
                     (rpc[p] = "done" /\ started[p] = << >>) =>
                        status[p] = "1")

\* C25: an invocation that wrote the lock file leaves the step loop only
\* through the finally clause, whether its steps all succeeded or one failed
\* and it exits with status 1, and at the step at which it terminates the
\* lock file is absent; an invocation that finds the lock file at its test
\* terminates at that step and leaves the file as it is.
C25_LockReleased ==
    [][ \A p \in Runs :
          /\ (Holding(p) /\ ~Holding(p)') =>
               (rpc'[p] = "finally" /\ status'[p] \in { "0", "1" })
          /\ (rpc[p] # "done" /\ rpc'[p] = "done") =>
               \/ rpc[p] \in { "finally", "unlink" } /\ ~lock'.exists
               \/ rpc[p] = "start" /\ lock.exists /\ lock' = lock
      ]_vars

\* Invocation 1 wrote the lock, its second step failed, and it has
\* terminated with status 1 and the lock file removed; invocation 2 was
\* refused in the meantime without starting a step.
C25_Witness ==
    /\ rpc[1] = "done"
    /\ rpc[2] = "done"
    /\ Len(started[1]) = 2
    /\ started[1][2].rc = "nonzero"
    /\ status[1] = "1"
    /\ started[2] = << >>
    /\ ~lock.exists

\* C26: every invocation starts the steps in the order of build_steps; a step
\* is started only when the step before it has finished with exit code 0; a
\* step that failed (non-zero exit, or an exception at launch or while its
\* output was read) is the last one started, and the invocation then goes to
\* its exit with status 1.
C26_StepOrder ==
    \A p \in Runs :
        LET s == started[p]
        IN  /\ Len(s) <= Len(build_steps)
            /\ \A k \in 1..Len(s) : s[k].name = build_steps[k]
            /\ \A k \in 2..Len(s) : s[k - 1].rc = "0"
            /\ \A k \in 1..Len(s) :
                 s[k].rc \in { "nonzero", "exception" } =>
                    /\ k = Len(s)
                    /\ rpc[p] \in { "finally", "unlink", "done" }
                    /\ status[p] = "1"

\* Both invocations run at once: one has started all six steps and ended
\* with status 0, the other stopped at its third step, which failed.
C26_Witness ==
    /\ Len(started[1]) = Len(build_steps)
    /\ status[1] = "0"
    /\ Len(started[2]) = 3
    /\ started[2][3].rc = "nonzero"
    /\ rpc[2] = "done"

\* The call made for topic i failed: the request gave no reply, or the
\* worker raised.
ResearchFailed(i) ==
    i \in DOMAIN futures /\ futures[i].st \in { "done", "collected" }
    /\ futures[i].reply \in { "", "raise" }

\* C27: whatever the order in which the research calls complete and whichever
\* of them fail, a row collected for index k carries the topic_id of input
\* topic k and is the default row of topic k when its call failed; the
\* written output has exactly one row per input topic, row k being the row
\* collected for index k.
C27_RowsInInputOrder ==
    /\ \A k \in DOMAIN research_rows_map :
         /\ k \in 1..Len(topics)
         /\ research_rows_map[k].topic_id = RowId(topics[k])
         /\ ResearchFailed(k) =>
              research_rows_map[k] = _default_row(topics[k])
    /\ pc = "done" =>
         /\ Len(research_rows) = Len(topics)
         /\ \A k \in 1..Len(topics) :
              /\ research_rows[k].topic_id = RowId(topics[k])
              /\ ResearchFailed(k) =>
                   research_rows[k] = _default_row(topics[k])
              /\ ~ResearchFailed(k) =>
                   research_rows[k] = _research_one(topics[k], "json")

\* Three topics, the third without a topic_id: the call of the third has
\* been collected (it raised, and the default row was stored under its
\* index) while the call of the first is still running.
C27_Witness ==
    /\ pc = "collect_rows"
    /\ Len(topics) = 3
    /\ topics[1].has_id /\ topics[2].has_id /\ ~topics[3].has_id
    /\ topics[1].topic_id # topics[2].topic_id
    /\ futures[1].st = "running"
    /\ futures[3].st = "collected"
    /\ futures[3].reply = "raise"
    /\ research_rows_map[3] = _default_row(topics[3])

\* The rows of three topics are written: the first call succeeded, the
\* second got no reply, the third raised.
C27_WitnessWritten ==
    /\ pc = "done"
    /\ Len(research_rows) = 3
    /\ topics[1].topic_id # topics[2].topic_id
    /\ futures[1].reply = "json"
    /\ futures[2].reply = ""
    /\ futures[3].reply = "raise"
    /\ research_rows[1].summary = "reply"
    /\ research_rows[3] = _default_row(topics[3])

\* C28: when the record list read is empty, main() goes from the read to its
\* end in that one step, without the embedding request (vectors stays empty)
\* and without writing: the topics file keeps the content it had when the
\* run started, whether that is no file or the topics of an earlier run.
C28_EmptyInput ==
    /\ [][ (pc = "read" /\ pc' # "read" /\ items' = << >>) =>
              /\ pc' = "done"
              /\ vectors' = vectors
              /\ topic_dicts' = topic_dicts
              /\ written' = written ]_vars
    /\ []((pc = "done" /\ items = << >>) =>
              /\ vectors = << >>
              /\ ~written
              /\ topic_dicts \in PreviousTopics)

\* The run has ended on an empty record list and the two topics written by
\* an earlier run are still the content of the topics file.
C28_Witness ==
    /\ pc = "done"
    /\ items = << >>
    /\ ~written
    /\ Len(topic_dicts) = 2

\* C29: from the first greedy pass on, the threshold is at least
\* similarity_threshold_min and at most the clamped configured value, also
\* when the configured minimum is above the maximum; an iteration of the
\* search never raises it; and once the search has ended the relaxed merge
\* threshold lies between similarity_threshold_min and the final threshold.
C29_ThresholdBounds ==
    /\ [](passes > 0 =>
            /\ th_min <= threshold
            /\ threshold <= ClampedThreshold)
    /\ [][ pc = "search" => threshold' <= threshold ]_vars
    /\ []((passes > 0 /\ pc # "search") =>
            /\ th_min <= merge_th
            /\ merge_th <= threshold)

\* The configured minimum is above the maximum: the search has ended with
\* the threshold, and the merge threshold, at the minimum.
C29_WitnessMinAboveMax ==
    /\ th_min > th_max
    /\ pc = "sort"
    /\ passes > 0
    /\ threshold = th_min
    /\ merge_th = th_min

\* The threshold has been lowered six times from its clamped value, and the
\* merge threshold is 0.05 below it, above the minimum.
C29_Witness ==
    /\ pc = "sort"
    /\ tries = MaxTries
    /\ threshold = ClampedThreshold - MaxTries * ThresholdStep
    /\ merge_th = threshold - RelaxDelta
    /\ merge_th > th_min

\* The records of all the clusters of the list cs.
Covered(cs) == UNION { MemberSet(cs[k]) : k \in 1..Len(cs) }

\* The sum of the counts of the emitted topics.
CountSum == SumSeq([ k \in 1..Len(topic_dicts) |-> topic_dicts[k].count ])

\* C30: on the clustering path the truncation keeps clusters whose sizes sum
\* to at most the number of records, and to exactly that number precisely
\* when the cluster list was not longer than max_topics_per_day; the records
\* of a cluster that is cut off are in no kept cluster; the kept clusters are
\* not changed before the topics are written; and the emitted topics are the
\* kept clusters one for one: pairwise disjoint member sets, count the size
\* of the cluster, items among its members, the counts summing to at most
\* the number of records.
C30_RecordCoverage ==
    /\ [][ (pc = "sort" /\ pc' # "sort") =>
             /\ Cardinality(Covered(clusters')) <= Len(items)
             /\ (Cardinality(Covered(clusters')) = Len(items))
                  <=> (Len(clusters) <= max_topics)
             /\ \A k \in 1..Len(clusters) :
                  \/ \E j \in 1..Len(clusters') : clusters'[j] = clusters[k]
                  \/ MemberSet(clusters[k]) \cap Covered(clusters') = {} ]_vars
    /\ [][ pc = "assemble" => clusters' = clusters ]_vars
    /\ []((pc = "done" /\ written /\ passes > 0) =>
             /\ Len(topic_dicts) = Len(clusters)
             /\ \A i, j \in 1..Len(clusters) :
                  i # j => MemberSet(clusters[i]) \cap MemberSet(clusters[j]) = {}
             /\ \A i \in 1..Len(topic_dicts) :
                  /\ topic_dicts[i].count = Cardinality(MemberSet(clusters[i]))
                  /\ \A k \in 1..Len(topic_dicts[i].items) :
                       topic_dicts[i].items[k].rid - 1 \in MemberSet(clusters[i])
             /\ CountSum = Cardinality(Covered(clusters))
             /\ CountSum <= Len(items))

\* Two topics were emitted out of more clusters: the counts sum to less than
\* the number of records, and the first topic counts two records or more.
C30_Witness ==
    /\ pc = "done"
    /\ written
    /\ passes > 0
    /\ max_topics = 2
    /\ Len(topic_dicts) = 2
    /\ topic_dicts[1].count >= 2
    /\ CountSum < Len(items)

\* Nothing was cut off: two topics whose counts sum to the number of
\* records, the first holding more records than it lists items.
C30_WitnessComplete ==
    /\ pc = "done"
    /\ written
    /\ passes > 0
    /\ Len(topic_dicts) = 2
    /\ CountSum = Len(items)
    /\ topic_dicts[1].count > Len(topic_dicts[1].items)

====
